---- MODULE Spec2Model ----
(***************************************************************************)
(* Metadata encryption of the userdata volume (MetadataCrypt.cpp):         *)
(* provisioning of the device-mapper "default-key" mapping, the two entry  *)
(* operations e4crypt_mount_metadata_encrypted and e4crypt_enable_crypto,  *)
(* and the detached async_kick_off thread they spawn.                      *)
(*                                                                         *)
(* Every external call (property service, key storage, fs_mgr, ioctl on    *)
(* /dev/device-mapper, cryptfs_enable_inplace) is one step of the caller,  *)
(* its outcome drawn nondeterministically.  Each caller keeps the trace of *)
(* the external effects of its current invocation in events.               *)
(***************************************************************************)
EXTENDS Integers, Sequences, FiniteSets, TLC

\* ------------------------------------------------------------------ bounds
\* number of threads that may call the entry operations
NumCallers == 2
\* number of detached async_kick_off threads the model keeps track of
MaxThreads == 2
\* largest size (in sectors) the backing device reports
MaxSectors == 2

\* ------------------------------------------------------- program constants
DM_CRYPT_BUF_SIZE == 4096
TABLE_LOAD_RETRIES == 10
DATA_PREP_TIMEOUT == 1000
\* sizeof(struct dm_ioctl) and sizeof(struct dm_target_spec), <linux/dm-ioctl.h>
SizeofDmIoctl == 312
SizeofDmTargetSpec == 40
\* length of the raw key handed out by key storage (AES-256-XTS: 64 bytes)
KeyLen == 64

Callers == 1..NumCallers
Threads == 1..MaxThreads

\* lengths of data_rec->blk_device: an ordinary path, the longest path whose
\* crypt_params still fit in the buffer, and the first that does not
BlkDeviceLens == {34, 3600, 3601}
\* values of io->dev the status ioctl reports (huge_encode_dev of 253:1 and
\* of 253:259)
DmDevs == {64769, 1113347}
\* values ro.crypto.state may hold when the daemon starts
InitCryptoStates == {"", "encrypted", "unsupported"}

VARIABLES
    props,        \* the property service: key -> value
    keyPresent,   \* key storage holds a key for the volume
    dmPresent,    \* the kernel has a mapping named kDmNameUserdata
    dmActive,     \* that mapping has a live table and is resumed
    blkLen,       \* strlen(data_rec->blk_device)
    devSectors,   \* size of the backing device, in sectors
    call,         \* per caller: the current invocation of an entry operation
    thr,          \* per detached thread: its run of async_kick_off
    transforms    \* history: the calls of cryptfs_enable_inplace so far

vars == <<props, keyPresent, dmPresent, dmActive, blkLen, devSectors, call, thr,
          transforms>>

\* ------------------------------------------------------------- helpers
Count(s, x) == Cardinality({k \in 1..Len(s) : s[k] = x})
Has(s, x) == \E k \in 1..Len(s) : s[k] = x
First(s, x) == CHOOSE k \in 1..Len(s) : s[k] = x /\ \A j \in 1..(k-1) : s[j] # x
\* every occurrence of x lies before every occurrence of y
AllBefore(s, x, y) == \A j, k \in 1..Len(s) : (s[j] = x /\ s[k] = y) => j < k

\* (v & 8): bit 3 of v
BitAnd8(v) == ((v \div 8) % 2) * 8

\* (io->dev & 0xff) | ((io->dev >> 12) & 0xfff00)
DmMinor_lowonly(dev) == dev % 256
DmMinor(dev) == (dev % 256) + (((dev \div 4096) % 1048576) \div 256) * 256

\* size of the KeyBuffer default_key_params returns:
\* "AES-256-XTS " + hex_key + " " + real_blkdev + " 0", or empty
DefaultKeyParamsSize(hexOk, blk) ==
    IF hexOk THEN 12 + 2 * KeyLen + 1 + blk + 2 ELSE 0

NewCall == [pc |-> "idle", op |-> "none", ret |-> "none",
            nr_sec |-> 0, crypt_params |-> 0, crypto_blkdev |-> -1,
            dm_fd |-> FALSE, i |-> 0, endix |-> 0, tgt_length |-> 0,
            rc |-> 0, size_already_done |-> 0, seen_state |-> "",
            activated |-> FALSE, mount_arg |-> -1, mounted |-> FALSE,
            hex_failed |-> FALSE, io |-> "unset", sent_from |-> <<>>,
            log |-> <<>>, inplace_arg |-> -1,
            size_query |-> "none", tgt_sector_start |-> -1,
            events |-> <<>>]

NewThread == [pc |-> "unborn", i |-> 0, p |-> "", events |-> <<>>]

Init ==
    /\ props \in {[k \in {"ro.crypto.state", "ro.crypto.type", "vold.decrypt",
                          "vold.post_fs_data_done"} |->
                      IF k = "ro.crypto.state" THEN s ELSE ""] :
                  s \in InitCryptoStates}
    /\ keyPresent \in BOOLEAN
    /\ dmPresent = FALSE
    /\ dmActive = FALSE
    /\ blkLen \in BlkDeviceLens
    /\ devSectors \in {0, MaxSectors}
    /\ call = [c \in Callers |-> NewCall]
    /\ thr = [t \in Threads |-> NewThread]
    /\ transforms = 0

\* the process is alive: no caller ran into a fatal fault
Alive == \A c \in Callers : call[c].pc # "crashed"

Env == <<keyPresent, dmPresent, dmActive, blkLen, devSectors, transforms>>

\* caller c moves on with its record changed to r
Step(c, r) == call' = [call EXCEPT ![c] = r]
At(c, op, pc) == Alive /\ call[c].op = op /\ call[c].pc = pc
Ev(c, e) == Append(call[c].events, e)

\* the entry operation reaches one of its `return false` statements
Fail(c, r) == Step(c, [r EXCEPT !.pc = "ret_false"])

\* the entry operation has returned: its locals are gone, its result stays
Returned(c, result) ==
    Step(c, [NewCall EXCEPT !.pc = "done", !.op = call[c].op, !.ret = result])

\* return false
ReturnFalse(c) ==
    /\ call[c].pc = "ret_false" /\ Alive
    /\ Returned(c, "false")
    /\ UNCHANGED <<props, Env, thr>>

\* ------------------------------------------------ entry: the two operations
\* bool e4crypt_mount_metadata_encrypted()
CallMount(c) ==
    /\ Alive
    /\ call[c].pc \in {"idle", "done"}
    /\ Step(c, [NewCall EXCEPT !.op = "mount", !.pc = "read_key"])
    /\ UNCHANGED <<props, Env, thr>>

\* bool e4crypt_enable_crypto()
CallEnable(c) ==
    /\ Alive
    /\ call[c].pc \in {"idle", "done"}
    /\ Step(c, [NewCall EXCEPT !.op = "enable", !.pc = "check_state"])
    /\ UNCHANGED <<props, Env, thr>>

\* strcmp(encrypted_state, "") == 0
StateIsUnset_any(s) == TRUE
StateIsUnset(s) == s = ""

\* property_get("ro.crypto.state", encrypted_state, ""); return false unless ""
EnableCheckState(c) ==
    /\ At(c, "enable", "check_state")
    /\ LET s == props["ro.crypto.state"]
           r == [call[c] EXCEPT !.seen_state = s,
                                !.events = Ev(c, "get ro.crypto.state")]
       IN IF StateIsUnset(s)
          THEN Step(c, [r EXCEPT !.pc = "read_key"])
          ELSE Fail(c, r)
    /\ UNCHANGED <<props, Env, thr>>

\* the create_if_absent argument each entry operation hands to read_key
CreateIfAbsent_always(op) == TRUE
CreateIfAbsent(op) == op = "enable"

\* android::vold::retrieveKey(create_if_absent, dir, temp, key): the key is
\* read if there is one, created if there is none and create is asked for
RetrieveKeyOutcomes(create, present) ==
    {[ok |-> FALSE, present |-> present]}
    \cup (IF present \/ create THEN {[ok |-> TRUE, present |-> TRUE]} ELSE {})

\* read_key(create_if_absent, &key)
ReadKey(c) ==
    /\ call[c].pc = "read_key" /\ Alive
    /\ LET create == CreateIfAbsent(call[c].op)
           r == [call[c] EXCEPT !.events =
                     Ev(c, IF create THEN "read_key(true)" ELSE "read_key(false)")]
       IN \E recOk \in BOOLEAN :
            IF ~recOk
            THEN \* no data_rec, no key_dir, or mkdir failed
                 /\ Fail(c, r)
                 /\ UNCHANGED keyPresent
            ELSE \E o \in RetrieveKeyOutcomes(create, keyPresent) :
                 /\ keyPresent' = o.present
                 /\ IF o.ok THEN Step(c, [r EXCEPT !.pc = "get_rec"])
                            ELSE Fail(c, r)
    /\ UNCHANGED <<props, dmPresent, dmActive, blkLen, devSectors, thr,
                   transforms>>

\* auto data_rec = fs_mgr_get_crypt_entry(fstab); if (!data_rec) return false
GetCryptEntry(c) ==
    /\ call[c].pc = "get_rec" /\ Alive
    /\ \E recOk \in BOOLEAN :
         IF recOk THEN Step(c, [call[c] EXCEPT !.pc = "nr_sec"])
                  ELSE Fail(c, call[c])
    /\ UNCHANGED <<props, Env, thr>>

\* get_blkdev_size(fd, &res): the size of the device in sectors, or 0 when
\* the BLKGETSIZE ioctl fails
GetBlkdevSizeOutcomes(sectors) == {sectors, 0}

\* if (res == 0) return false
SizeUsable_any(res) == TRUE
SizeUsable(res) == res # 0

\* get_number_of_sectors(data_rec->blk_device, &nr_sec)
GetNumberOfSectors(c) ==
    /\ call[c].pc = "nr_sec" /\ Alive
    /\ \E openOk \in BOOLEAN, res \in GetBlkdevSizeOutcomes(devSectors) :
         IF openOk /\ SizeUsable(res)
         THEN Step(c, [call[c] EXCEPT !.nr_sec = res, !.size_query = "ok",
                                      !.pc = "params"])
         ELSE Fail(c, [call[c] EXCEPT !.size_query = "failed"])
    /\ UNCHANGED <<props, Env, thr>>

\* the record default_key_params writes to the log: what is streamed into it
\* after the fixed text.  LOG(ERROR) << "Failed to turn key to hex", or
\* LOG(DEBUG) << "crypt_params: " << std::string(res.data(), res.size())
DefaultKeyParamsLog(hexOk) ==
    IF hexOk
    THEN [text |-> "crypt_params: ", streamed |-> {"hex_key", "real_blkdev"}]
    ELSE [text |-> "Failed to turn key to hex", streamed |-> {}]

\* default_key_params(data_rec->blk_device, key): StrToHex may fail, and then
\* the result is an empty KeyBuffer, which the entry operation hands on to
\* create_crypto_blk_dev as it is
DefaultKeyParams(c) ==
    /\ call[c].pc = "params" /\ Alive
    /\ \E hexOk \in BOOLEAN :
         Step(c, [call[c] EXCEPT
                    !.crypt_params = DefaultKeyParamsSize(hexOk, blkLen),
                    !.hex_failed = ~hexOk,
                    !.log = Append(call[c].log, DefaultKeyParamsLog(hexOk)),
                    !.pc = "open_dm"])
    /\ UNCHANGED <<props, Env, thr>>

\* ------------------------------------------------- create_crypto_blk_dev
\* a `return false` of create_crypto_blk_dev: the unique_fd closes the control
\* handle, and the entry operation returns false in turn
ProvisionFail_leaky(c, r) == Fail(c, r)
ProvisionFail(c, r) ==
    Fail(c, [r EXCEPT !.dm_fd = FALSE,
                      !.events = Append(r.events, "close /dev/device-mapper")])

\* dm_ioctl_init(io, DM_CRYPT_BUF_SIZE, name, 0): memset of the whole buffer,
\* then data_size, data_start, version 4.0.0, flags and name are set; whatever
\* the buffer held before, it is "init" afterwards
dm_ioctl_init_skipped(io) == io
dm_ioctl_init(io) == "init"

\* caller c has issued ioctl(dm_fd, cmd, io), which returned 0 or -1, from the
\* buffer in the state `io`; the kernel has had the buffer since ("sent")
Ioctl(c, cmd, ok, io) ==
    [call[c] EXCEPT !.events = Ev(c, cmd \o (IF ok THEN "=0" ELSE "=-1")),
                    !.sent_from = Append(call[c].sent_from, io),
                    !.io = "sent"]

\* open("/dev/device-mapper", O_RDWR | O_CLOEXEC)
OpenDeviceMapper(c) ==
    /\ call[c].pc = "open_dm" /\ Alive
    /\ \E openOk \in BOOLEAN :
         IF openOk
         THEN Step(c, [call[c] EXCEPT !.dm_fd = TRUE, !.pc = "dm_create",
                          !.events = Ev(c, "open /dev/device-mapper")])
         ELSE Fail(c, call[c])
    /\ UNCHANGED <<props, Env, thr>>

\* the kernel's answer to DM_DEV_CREATE: a name that exists is rejected
DmCreateOutcomes(present) == IF present THEN {FALSE} ELSE BOOLEAN

\* if (ioctl(dm_fd.get(), DM_DEV_CREATE, io)) return false
AfterCreate_ignored(ok) == "dm_status"
AfterCreate(ok) == IF ok THEN "dm_status" ELSE "return"

\* dm_ioctl_init; ioctl(dm_fd, DM_DEV_CREATE, io)
DmDevCreate(c) ==
    /\ call[c].pc = "dm_create" /\ Alive
    /\ \E ok \in DmCreateOutcomes(dmPresent) :
         LET r == Ioctl(c, "DM_DEV_CREATE", ok, dm_ioctl_init(call[c].io))
             to == AfterCreate(ok)
         IN /\ dmPresent' = (dmPresent \/ ok)
            /\ IF to = "return" THEN ProvisionFail(c, r)
                                ELSE Step(c, [r EXCEPT !.pc = to])
    /\ UNCHANGED <<props, keyPresent, dmActive, blkLen, devSectors, thr,
                   transforms>>

\* dm_ioctl_init; ioctl(dm_fd, DM_DEV_STATUS, io); *crypto_blkdev = dm-N
DmDevStatus(c) ==
    /\ call[c].pc = "dm_status" /\ Alive
    /\ \E ok \in BOOLEAN, dev \in DmDevs :
         LET r == Ioctl(c, "DM_DEV_STATUS", ok, dm_ioctl_init(call[c].io))
         IN IF ok
            THEN Step(c, [r EXCEPT !.crypto_blkdev = DmMinor(dev),
                                   !.pc = "build_table"])
            ELSE ProvisionFail(c, r)
    /\ UNCHANGED <<props, Env, thr>>

\* size_t paramix = io->data_start + sizeof(struct dm_target_spec)
ParamIx == SizeofDmIoctl + SizeofDmTargetSpec
\* size_t nullix = paramix + crypt_params.size()
NullIx(size) == ParamIx + size
\* size_t endix = (nullix + 1 + 7) & 8
EndIx(nullix) == BitAnd8(nullix + 1 + 7)

\* lines 173-192: the table-load buffer is laid out; buffer[nullix] = '\0' is
\* written whatever nullix is, so past the end of the buffer when
\* nullix >= sizeof(buffer): undefined behaviour, which here either goes
\* unnoticed or takes the process down
BuildTable(c) ==
    /\ call[c].pc = "build_table" /\ Alive
    /\ LET nullix == NullIx(call[c].crypt_params)
           endix == EndIx(nullix)
       IN IF endix > DM_CRYPT_BUF_SIZE
          THEN ProvisionFail(c, call[c])
          ELSE LET r == [call[c] EXCEPT !.io = dm_ioctl_init(call[c].io),
                                        !.endix = endix,
                                        !.tgt_sector_start = 0,
                                        !.tgt_length = call[c].nr_sec,
                                        !.i = 0]
               IN IF nullix < DM_CRYPT_BUF_SIZE
                  THEN Step(c, [r EXCEPT !.pc = "dm_load"])
                  ELSE \E crash \in BOOLEAN :
                         Step(c, [r EXCEPT
                            !.events = Append(r.events, "write past buffer"),
                            !.pc = IF crash THEN "crashed" ELSE "dm_load"])
    /\ UNCHANGED <<props, Env, thr>>

\* i+1 >= TABLE_LOAD_RETRIES
LoadRetriesExhausted_late(i) == i >= TABLE_LOAD_RETRIES
LoadRetriesExhausted(i) == i + 1 >= TABLE_LOAD_RETRIES

\* what follows a failed DM_TABLE_LOAD: return false, or usleep and try again
AfterLoadFailure_goon(i) == IF LoadRetriesExhausted(i) THEN "dm_resume" ELSE "dm_load"
AfterLoadFailure(i) == IF LoadRetriesExhausted(i) THEN "return" ELSE "dm_load"

\* one pass of the loop of lines 194-204: ioctl(dm_fd, DM_TABLE_LOAD, io), on
\* the buffer as the pass before left it
DmTableLoad(c) ==
    /\ call[c].pc = "dm_load" /\ Alive
    /\ \E ok \in BOOLEAN :
         LET r == Ioctl(c, "DM_TABLE_LOAD", ok, call[c].io)
         IN IF ok THEN Step(c, [r EXCEPT !.pc = "dm_resume"])
            ELSE LET to == AfterLoadFailure(r.i)
                 IN IF to = "return"
                    THEN ProvisionFail(c, r)
                    ELSE Step(c, [r EXCEPT !.i = r.i + 1, !.pc = to])
    /\ UNCHANGED <<props, Env, thr>>

\* where the entry operation goes on after create_crypto_blk_dev returned true
AfterProvision(op) == IF op = "enable" THEN "transform" ELSE "mount"

\* if (ioctl(dm_fd.get(), DM_DEV_SUSPEND, io)) return false; return true;
AfterResume_ignored(op, ok) == AfterProvision(op)
AfterResume(op, ok) == IF ok THEN AfterProvision(op) ELSE "return"

\* dm_ioctl_init; ioctl(dm_fd, DM_DEV_SUSPEND, io) with flags 0: resume
DmDevResume(c) ==
    /\ call[c].pc = "dm_resume" /\ Alive
    /\ \E ok \in BOOLEAN :
         LET r == Ioctl(c, "DM_DEV_SUSPEND", ok, dm_ioctl_init(call[c].io))
             to == AfterResume(r.op, ok)
         IN /\ dmActive' = (dmActive \/ ok)
            /\ IF to = "return"
               THEN ProvisionFail(c, r)
               ELSE Step(c, [r EXCEPT !.dm_fd = FALSE, !.activated = ok,
                      !.events = Append(r.events, "close /dev/device-mapper"),
                      !.pc = to])
    /\ UNCHANGED <<props, keyPresent, dmPresent, blkLen, devSectors, thr,
                   transforms>>

\* ------------------------------------------- after the mapping is active
\* rc == 0 and static_cast<uint64_t>(size_already_done) == nr_sec
TransformComplete_rconly(rc, done, nr) == rc = 0
TransformComplete(rc, done, nr) == rc = 0 /\ done = nr

\* the statements that follow the mapping (and, for enable, the transform), in
\* program order: lines 312-318 and lines 269-271
StepsOf_mountlast(op) ==
    IF op = "enable"
    THEN <<"set_state", "set_type", "reset_main", "mount", "spawn">>
    ELSE <<"mount", "spawn">>
StepsOf(op) ==
    IF op = "enable"
    THEN <<"set_state", "set_type", "mount", "reset_main", "spawn">>
    ELSE <<"mount", "spawn">>

NextPc(op, pc) == StepsOf(op)[First(StepsOf(op), pc) + 1]

\* what follows the bulk transform
AfterTransform_retry(op, complete) ==
    IF complete THEN StepsOf(op)[1] ELSE "transform"
AfterTransform(op, complete) ==
    IF complete THEN StepsOf(op)[1] ELSE "return"

\* cryptfs_enable_inplace(crypto_blkdev, blk_device, nr_sec,
\*                        &size_already_done, nr_sec, 0) and the two checks
EnableInplace(c) ==
    /\ At(c, "enable", "transform")
    /\ \E rc \in {0, -1}, done \in 0..call[c].nr_sec :
         LET r == [call[c] EXCEPT !.rc = rc, !.size_already_done = done,
                                  !.inplace_arg = call[c].crypto_blkdev,
                                  !.events = Ev(c, "cryptfs_enable_inplace")]
             to == AfterTransform(r.op, TransformComplete(rc, done, r.nr_sec))
         IN IF to = "return" THEN Fail(c, r) ELSE Step(c, [r EXCEPT !.pc = to])
    /\ transforms' = transforms + 1
    /\ UNCHANGED <<props, keyPresent, dmPresent, dmActive, blkLen, devSectors,
                   thr>>

\* property_set(key, value) by caller c at statement pc
CallerSet(c, pc, key, value) ==
    /\ call[c].pc = pc /\ Alive
    /\ props' = [props EXCEPT ![key] = value]
    /\ Step(c, [call[c] EXCEPT !.events = Ev(c, key \o "=" \o value),
                               !.pc = NextPc(call[c].op, pc)])
    /\ UNCHANGED <<Env, thr>>

\* property_set("ro.crypto.state", "encrypted")
SetCryptoState(c) == CallerSet(c, "set_state", "ro.crypto.state", "encrypted")
\* property_set("ro.crypto.type", "file")
SetCryptoType(c) == CallerSet(c, "set_type", "ro.crypto.type", "file")
\* property_set("vold.decrypt", "trigger_reset_main")
SetResetMain(c) == CallerSet(c, "reset_main", "vold.decrypt", "trigger_reset_main")

\* the entry operations ignore what mount_via_fs_mgr returns
AfterMount_fatal(op, mounted) == IF mounted THEN NextPc(op, "mount") ELSE "return"
AfterMount(op, mounted) == NextPc(op, "mount")

\* mount_via_fs_mgr(data_rec->mount_point, crypto_blkdev.c_str()): setexeccon,
\* fs_mgr_do_mount, setexeccon(nullptr)
MountViaFsMgr(c) ==
    /\ call[c].pc = "mount" /\ Alive
    /\ \E setOk, mountOk, clearOk \in BOOLEAN :
         LET e1 == Ev(c, "mount_via_fs_mgr")
             r == [call[c] EXCEPT
                     !.mount_arg = call[c].crypto_blkdev,
                     !.mounted = setOk /\ mountOk /\ clearOk,
                     !.events = IF setOk THEN Append(e1, "fs_mgr_do_mount")
                                ELSE e1]
             to == AfterMount(r.op, r.mounted)
         IN IF to = "return" THEN Fail(c, r) ELSE Step(c, [r EXCEPT !.pc = to])
    /\ UNCHANGED <<props, Env, thr>>

\* std::thread(&async_kick_off).detach(); return true;
SpawnKickOff(c) ==
    /\ call[c].pc = "spawn" /\ Alive
    /\ \E t \in Threads :
         /\ thr[t].pc = "unborn"
         /\ \A u \in 1..(t-1) : thr[u].pc # "unborn"
         /\ thr' = [thr EXCEPT ![t] = [NewThread EXCEPT !.pc = "kick_off"]]
    /\ Returned(c, "true")
    /\ UNCHANGED <<props, Env>>

\* --------------------------------------------------------- async_kick_off
Tv(t, e) == Append(thr[t].events, e)

\* property_set(key, value) by thread t at statement pc
ThreadSet(t, pc, key, value, to) ==
    /\ thr[t].pc = pc /\ Alive
    /\ props' = [props EXCEPT ![key] = value]
    /\ thr' = [thr EXCEPT ![t] = [@ EXCEPT !.events = Tv(t, key \o "=" \o value),
                                           !.pc = to]]
    /\ UNCHANGED <<Env, call>>

\* sleep(2); property_set("vold.decrypt", "trigger_load_persist_props")
LoadPersistProps(t) ==
    ThreadSet(t, "kick_off", "vold.decrypt", "trigger_load_persist_props", "prep")

\* prep_data_fs: property_set("vold.post_fs_data_done", "0")
PrepClearDone(t) ==
    ThreadSet(t, "prep", "vold.post_fs_data_done", "0", "prep_trigger")

\* prep_data_fs: property_set("vold.decrypt", "trigger_post_fs_data")
PrepTrigger(t) ==
    ThreadSet(t, "prep_trigger", "vold.decrypt", "trigger_post_fs_data", "poll")

\* property_get(name, p, "0"): the default stands in for an empty value
PropertyGet0(v) == IF v = "" THEN "0" ELSE v

\* *p == '1'
DataPrepDone_any(p) == TRUE
DataPrepDone(p) == p = "1"

\* what async_kick_off does once prep_data_fs has returned
AfterPrep_always(ok) == "restart"
AfterPrep(ok) == IF ok THEN "restart" ELSE "finished"

\* one pass of the loop of lines 227-240
PrepPoll(t) ==
    /\ thr[t].pc = "poll" /\ Alive
    /\ LET p == PropertyGet0(props["vold.post_fs_data_done"])
           r == [thr[t] EXCEPT !.p = p]
       IN thr' = [thr EXCEPT ![t] =
            IF DataPrepDone(p)
            THEN [r EXCEPT !.events = Tv(t, "prep_data_fs true"),
                           !.pc = AfterPrep(TRUE)]
            ELSE IF r.i + 1 = DATA_PREP_TIMEOUT
            THEN [r EXCEPT !.events = Tv(t, "prep_data_fs false"),
                           !.pc = AfterPrep(FALSE)]
            ELSE [r EXCEPT !.i = r.i + 1]]
    /\ UNCHANGED <<props, Env, call>>

\* property_set("vold.decrypt", "trigger_restart_framework")
RestartFramework(t) ==
    ThreadSet(t, "restart", "vold.decrypt", "trigger_restart_framework", "finished")

\* init, having seen trigger_post_fs_data, prepares /data and sets the flag
InitPostFsData ==
    /\ Alive
    /\ \E t \in Threads : Has(thr[t].events, "vold.decrypt=trigger_post_fs_data")
    /\ props["vold.post_fs_data_done"] # "1"
    /\ props' = [props EXCEPT !["vold.post_fs_data_done"] = "1"]
    /\ UNCHANGED <<Env, call, thr>>

\* ------------------------------------------------------- specifications
CallerStep(c) ==
    \/ CallMount(c)
    \/ CallEnable(c)
    \/ EnableCheckState(c)
    \/ ReadKey(c)
    \/ GetCryptEntry(c)
    \/ GetNumberOfSectors(c)
    \/ DefaultKeyParams(c)
    \/ OpenDeviceMapper(c)
    \/ DmDevCreate(c)
    \/ DmDevStatus(c)
    \/ BuildTable(c)
    \/ DmTableLoad(c)
    \/ DmDevResume(c)
    \/ EnableInplace(c)
    \/ SetCryptoState(c)
    \/ SetCryptoType(c)
    \/ MountViaFsMgr(c)
    \/ SetResetMain(c)
    \/ SpawnKickOff(c)
    \/ ReturnFalse(c)

ThreadStep(t) ==
    \/ LoadPersistProps(t)
    \/ PrepClearDone(t)
    \/ PrepTrigger(t)
    \/ PrepPoll(t)
    \/ RestartFramework(t)

\* the entry operations are called from one thread (caller 1), one after the
\* other; the threads they have started run alongside
Next ==
    \/ CallerStep(1)
    \/ \E t \in Threads : ThreadStep(t)
    \/ InitPostFsData

Spec == Init /\ [][Next]_vars

\* the entry operations are called from NumCallers threads at once, nothing
\* keeping them apart; the detached threads are started but their steps left
\* out, as they touch vold.decrypt and vold.post_fs_data_done only, which no
\* entry operation reads
NextConc == \E c \in Callers : CallerStep(c)

SpecConc == Init /\ [][NextConc]_vars

\* a detached thread, once started, is scheduled again and again: each of its
\* steps is a property_set, a property_get or a usleep(50000) that returns
\* (the inputs the thread does not depend on are fixed: a key is stored and
\* the path of the backing device is an ordinary one)
InitFair == Init /\ keyPresent /\ blkLen = 34
SpecFair == InitFair /\ [][Next]_vars /\ \A t \in Threads : WF_vars(ThreadStep(t))

\* =================================================================== claims
SetState == "ro.crypto.state=encrypted"
SetType == "ro.crypto.type=file"
SetResetMainEv == "vold.decrypt=trigger_reset_main"
PropertyWrites == {SetState, SetType, SetResetMainEv}

IsDmIoctl(e) == e \in {"DM_DEV_CREATE=0", "DM_DEV_CREATE=-1", "DM_DEV_STATUS=0",
                       "DM_DEV_STATUS=-1", "DM_TABLE_LOAD=0", "DM_TABLE_LOAD=-1",
                       "DM_DEV_SUSPEND=0", "DM_DEV_SUSPEND=-1"}
\* the kernel mapping commands of c's invocation, with their results, in order
DmEvents(c) == SelectSeq(call[c].events, IsDmIoctl)
\* what c's invocation did after event e (which it did once)
After(c, e) == SubSeq(call[c].events, First(call[c].events, e) + 1,
                      Len(call[c].events))
IsPrefix(s, t) == Len(s) <= Len(t) /\ SubSeq(t, 1, Len(s)) = s
\* caller c takes a step
Acts(c) == call'[c] # call[c]
\* caller c returns `result` in this step
Returns(c, result) ==
    call[c].pc # "done" /\ call'[c].pc = "done" /\ call'[c].ret = result
\* the threads that start in this step
Born == {t \in Threads : thr[t].pc = "unborn" /\ thr'[t].pc # "unborn"}

\* C1: ro.crypto.state is written to "encrypted" only by an invocation of
\* e4crypt_enable_crypto whose cryptfs_enable_inplace returned 0 and reported
\* size_already_done equal to the nr_sec asked for; no other step changes it.
C1_FlagOnlyAfterFullTransform ==
    [][ /\ \A c \in Callers :
             (Acts(c) /\ Len(call'[c].events) > 0
                      /\ call'[c].events[Len(call'[c].events)] = SetState
                      /\ call'[c].events # call[c].events)
             => /\ call[c].op = "enable"
                /\ Has(call[c].events, "cryptfs_enable_inplace")
                /\ call[c].rc = 0
                /\ call[c].nr_sec > 0
                /\ call[c].size_already_done = call[c].nr_sec
        /\ props'["ro.crypto.state"] # props["ro.crypto.state"]
             => \E c \in Callers :
                  /\ Acts(c)
                  /\ call'[c].events = Append(call[c].events, SetState)
                  /\ props'["ro.crypto.state"] = "encrypted"
        /\ \A c \in Callers :
             (Acts(c) /\ call[c].pc = "transform"
                /\ ~(call'[c].rc = 0
                     /\ call'[c].size_already_done = call[c].nr_sec))
             => call'[c].pc = "ret_false"
      ]_vars

\* an invocation has set the flag after a transform of all MaxSectors sectors
C1_Witness ==
    \E c \in Callers :
        /\ Has(call[c].events, SetState)
        /\ props["ro.crypto.state"] = "encrypted"
        /\ call[c].rc = 0
        /\ call[c].size_already_done = MaxSectors

\* C2: when e4crypt_enable_crypto finds ro.crypto.state non-empty it goes
\* straight to `return false`: having done nothing but read the property
\* (no key acquisition, no control handle, no kernel mapping command, no
\* transform, no mount, no property write, no thread), and the return itself
\* changes nothing but the caller.
C2_NonEmptyStateRefused ==
    [][ \A c \in Callers :
          /\ (Acts(c) /\ call[c].pc = "check_state"
                /\ props["ro.crypto.state"] # "")
             => /\ call'[c].pc = "ret_false"
                /\ call'[c].events = <<"get ro.crypto.state">>
                /\ ~call'[c].dm_fd
                /\ UNCHANGED <<props, Env, thr>>
          /\ (Acts(c) /\ call[c].pc = "ret_false")
             => /\ Returns(c, "false")
                /\ UNCHANGED <<props, Env, thr>>
      ]_vars

\* a second invocation is refused because an earlier one has set the flag
C2_Witness ==
    \E c \in Callers :
        /\ call[c].op = "enable"
        /\ call[c].pc = "ret_false"
        /\ call[c].seen_state = "encrypted"
        /\ call[c].events = <<"get ro.crypto.state">>
        /\ \E t \in Threads : thr[t].pc # "unborn"

\* the crypt_params of c's invocation do not fit:
\* header_size + target_spec_size + len(CryptoParams) + 1 > 4096
ParamsTooLarge(c) == 312 + 40 + call[c].crypt_params + 1 > 4096

\* C3: when header + target spec + crypt_params + 1 exceeds the 4096-byte
\* buffer, create_crypto_blk_dev issues no kernel command at all, writes
\* nothing past the end of the buffer, and fails.
C3_ParamsTooLargeRejected ==
    \A c \in Callers :
        ParamsTooLarge(c)
        => /\ DmEvents(c) = <<>>
           /\ ~Has(call[c].events, "write past buffer")
           /\ call[c].pc \in {"open_dm", "dm_create", "ret_false"}

\* number of DM_TABLE_LOAD commands of c's invocation that failed, succeeded
LoadsFailed(c) == Count(call[c].events, "DM_TABLE_LOAD=-1")
LoadsDone(c) == Count(call[c].events, "DM_TABLE_LOAD=0")

\* C4: at most 10 table loads per provisioning attempt; a load that succeeds
\* is the last one and is followed by the activation; the attempt fails on
\* the table load exactly when 10 loads have failed.
C4_TableLoadRetries ==
    \A c \in Callers :
        LET d == DmEvents(c)
        IN /\ LoadsFailed(c) + LoadsDone(c) <= 10
           /\ LoadsDone(c) <= 1
           /\ AllBefore(d, "DM_TABLE_LOAD=-1", "DM_TABLE_LOAD=0")
           /\ LoadsDone(c) = 1
              => \/ call[c].pc = "dm_resume" /\ d[Len(d)] = "DM_TABLE_LOAD=0"
                 \/ /\ Len(d) = LoadsFailed(c) + 4
                    /\ d[Len(d) - 1] = "DM_TABLE_LOAD=0"
                    /\ d[Len(d)] \in {"DM_DEV_SUSPEND=0", "DM_DEV_SUSPEND=-1"}
           /\ (LoadsDone(c) = 0 /\ LoadsFailed(c) \in 1..9)
              => call[c].pc = "dm_load"
           /\ LoadsFailed(c) = 10
              => call[c].pc = "ret_false" /\ LoadsDone(c) = 0
           /\ (call[c].pc = "ret_false" /\ Len(d) > 0
                 /\ d[Len(d)] = "DM_TABLE_LOAD=-1")
              => LoadsFailed(c) = 10

\* the tenth load succeeds after nine failures, and the activation is next
C4_Witness ==
    \E c \in Callers :
        /\ LoadsFailed(c) = 9
        /\ LoadsDone(c) = 1
        /\ call[c].pc = "dm_resume"

\* C5: the kernel commands of one provisioning attempt are create, status,
\* one or more table loads, activate, in this order, each issued only after
\* the one before has succeeded; create, status and activate are issued at
\* most once, and a failure of any of them, or of the last table load, is
\* followed by `return false`.
C5_CommandOrder ==
    \A c \in Callers :
        LET d == DmEvents(c)
            n == Len(d)
        IN /\ \A k \in 1..n :
                /\ d[k] \in {"DM_DEV_CREATE=0", "DM_DEV_CREATE=-1"} => k = 1
                /\ d[k] \in {"DM_DEV_STATUS=0", "DM_DEV_STATUS=-1"}
                   => k = 2 /\ d[1] = "DM_DEV_CREATE=0"
                /\ d[k] \in {"DM_TABLE_LOAD=0", "DM_TABLE_LOAD=-1"}
                   => /\ k >= 3
                      /\ d[2] = "DM_DEV_STATUS=0"
                      /\ \A j \in 3..(k-1) : d[j] = "DM_TABLE_LOAD=-1"
                /\ d[k] \in {"DM_DEV_SUSPEND=0", "DM_DEV_SUSPEND=-1"}
                   => k >= 4 /\ d[k-1] = "DM_TABLE_LOAD=0" /\ k = n
                /\ d[k] \in {"DM_DEV_CREATE=-1", "DM_DEV_STATUS=-1",
                             "DM_DEV_SUSPEND=-1"}
                   => k = n /\ call[c].pc = "ret_false"
           /\ (n > 0 /\ d[n] = "DM_TABLE_LOAD=-1"
                 /\ call[c].pc \notin {"dm_load"})
              => call[c].pc = "ret_false" /\ ~Has(d, "DM_DEV_SUSPEND=0")
                                          /\ ~Has(d, "DM_DEV_SUSPEND=-1")

\* all ten table loads have failed: the attempt returns without an activate
C5_Witness ==
    \E c \in Callers :
        /\ LoadsFailed(c) = 10
        /\ call[c].pc = "ret_false"
        /\ DmEvents(c)[1] = "DM_DEV_CREATE=0"
        /\ DmEvents(c)[2] = "DM_DEV_STATUS=0"

\* C6: e4crypt_mount_metadata_encrypted returns true exactly when its
\* DM_DEV_SUSPEND (resume) succeeded: it never returns false once the mapping
\* is active, and when mount_via_fs_mgr fails it issues no further kernel
\* mapping command, goes on to start async_kick_off and returns true.
C6_MountSuccessIffActivated ==
    [][ \A c \in Callers :
          call[c].op = "mount"
          => /\ Returns(c, "true")
                => /\ call[c].activated
                   /\ DmEvents(c)[Len(DmEvents(c))] = "DM_DEV_SUSPEND=0"
                   /\ dmActive
                   /\ Cardinality(Born) = 1
             /\ Returns(c, "false")
                => /\ ~call[c].activated
                   /\ ~Has(call[c].events, "DM_DEV_SUSPEND=0")
             /\ (Acts(c) /\ Has(call'[c].events, "DM_DEV_SUSPEND=0"))
                => /\ call'[c].activated
                   /\ call'[c].pc \in {"mount", "spawn"}
                   /\ DmEvents(c)' = IF call[c].pc = "dm_resume"
                                     THEN Append(DmEvents(c), "DM_DEV_SUSPEND=0")
                                     ELSE DmEvents(c)
             /\ (Acts(c) /\ call[c].pc = "mount")
                => /\ call'[c].pc = "spawn"
                   /\ dmActive'
             /\ (Acts(c) /\ call[c].pc = "spawn")
                => Returns(c, "true")
      ]_vars

\* the mapping is active, the mount has failed, the thread is about to start
C6_Witness ==
    \E c \in Callers :
        /\ call[c].op = "mount"
        /\ call[c].pc = "spawn"
        /\ call[c].activated
        /\ Has(call[c].events, "fs_mgr_do_mount")
        /\ ~call[c].mounted

\* C7: an entry operation that returns false has written no property, has
\* not called mount_via_fs_mgr and has started no thread; one that returns
\* true starts exactly one async_kick_off thread, and no thread starts
\* otherwise.
C7_FailureHasNoEffects ==
    [][ /\ \A c \in Callers :
             /\ Returns(c, "false")
                => /\ \A e \in PropertyWrites : ~Has(call[c].events, e)
                   /\ ~Has(call[c].events, "mount_via_fs_mgr")
                   /\ ~Has(call[c].events, "fs_mgr_do_mount")
                   /\ call[c].mount_arg = -1
                   /\ Born = {}
                   /\ props' = props
             /\ (Acts(c) /\ props' # props)
                => /\ Len(call'[c].events) = Len(call[c].events) + 1
                   /\ call'[c].events[Len(call'[c].events)] \in PropertyWrites
             /\ Returns(c, "true")
                => /\ Cardinality(Born) = 1
                   /\ call[c].pc = "spawn"
        /\ Born # {} => \E c \in Callers : Returns(c, "true")
      ]_vars

\* e4crypt_enable_crypto is about to return false after a partial transform
C7_Witness ==
    \E c \in Callers :
        /\ call[c].op = "enable"
        /\ call[c].pc = "ret_false"
        /\ call[c].rc = 0
        /\ Has(call[c].events, "cryptfs_enable_inplace")
        /\ call[c].size_already_done > 0
        /\ call[c].size_already_done < call[c].nr_sec

\* what e4crypt_enable_crypto does after a complete transform, up to the spawn
EnableEffects(fsMgrReached) ==
    <<SetState, SetType, "mount_via_fs_mgr">>
    \o (IF fsMgrReached THEN <<"fs_mgr_do_mount">> ELSE <<>>)
    \o <<SetResetMainEv>>

\* C8: after a complete transform e4crypt_enable_crypto sets
\* ro.crypto.state=encrypted and ro.crypto.type=file, then calls
\* mount_via_fs_mgr on the /dev/block/dm-N path derived from the status
\* query, then writes vold.decrypt=trigger_reset_main, then starts
\* async_kick_off and returns true; whether the mount succeeds changes none
\* of this.
C8_EnableEffectOrder ==
    [][ \A c \in Callers :
          (call[c].op = "enable" /\ Has(call[c].events, "cryptfs_enable_inplace"))
          => /\ call[c].pc # "ret_false"
                => /\ \E f \in BOOLEAN :
                        IsPrefix(After(c, "cryptfs_enable_inplace"),
                                 EnableEffects(f))
                   /\ call[c].pc = "spawn"
                      <=> \E f \in BOOLEAN :
                            After(c, "cryptfs_enable_inplace") = EnableEffects(f)
             /\ Has(call[c].events, "mount_via_fs_mgr")
                => /\ call[c].mount_arg = call[c].crypto_blkdev
                   /\ call[c].mount_arg \in {1, 259}
                   /\ call[c].pc \in {"reset_main", "spawn"}
             /\ (Acts(c) /\ call[c].pc = "spawn")
                => /\ Returns(c, "true")
                   /\ Cardinality(Born) = 1
                   /\ props'["ro.crypto.state"] = "encrypted"
                   /\ props'["ro.crypto.type"] = "file"
      ]_vars

\* all effects are done in order although the mount failed
C8_Witness ==
    \E c \in Callers :
        /\ call[c].op = "enable"
        /\ call[c].pc = "spawn"
        /\ ~call[c].mounted
        /\ call[c].mount_arg = 259
        /\ After(c, "cryptfs_enable_inplace") = EnableEffects(TRUE)

\* C9: e4crypt_mount_metadata_encrypted calls read_key(false) and no step of
\* it creates a key; with no key stored it goes to `return false` straight
\* from read_key, before the control handle is opened or any kernel mapping
\* command is issued.  e4crypt_enable_crypto calls read_key(true), and only
\* after it has read ro.crypto.state as empty.
C9_KeyAcquisition ==
    [][ \A c \in Callers :
          /\ (Acts(c) /\ call[c].op = "mount")
             => /\ keyPresent' = keyPresent
                /\ ~Has(call'[c].events, "read_key(true)")
          /\ (Acts(c) /\ call[c].op = "mount" /\ call[c].pc = "read_key")
             => /\ call'[c].events = <<"read_key(false)">>
                /\ ~keyPresent
                   => /\ call'[c].pc = "ret_false"
                      /\ ~call'[c].dm_fd
                      /\ DmEvents(c)' = <<>>
          /\ (Acts(c) /\ call[c].op = "enable")
             => /\ ~Has(call'[c].events, "read_key(false)")
                /\ Has(call'[c].events, "read_key(true)")
                   => /\ call'[c].seen_state = ""
                      /\ SubSeq(call'[c].events, 1, 2)
                           = <<"get ro.crypto.state", "read_key(true)">>
                      /\ Count(call'[c].events, "read_key(true)") = 1
      ]_vars

\* with no key stored, e4crypt_mount_metadata_encrypted is about to return
\* false straight from read_key(false)
C9_Witness ==
    \E c \in Callers :
        /\ call[c].op = "mount"
        /\ call[c].pc = "ret_false"
        /\ ~keyPresent
        /\ call[c].events = <<"read_key(false)">>

LoadPersistEv == "vold.decrypt=trigger_load_persist_props"
RestartEv == "vold.decrypt=trigger_restart_framework"
\* what a run of async_kick_off does when prep_data_fs returns true
KickOffEffects ==
    <<LoadPersistEv, "vold.post_fs_data_done=0",
      "vold.decrypt=trigger_post_fs_data", "prep_data_fs true", RestartEv>>

\* C10: every run of async_kick_off writes trigger_load_persist_props first,
\* then polls vold.post_fs_data_done, and writes trigger_restart_framework
\* only after a poll has read the flag as "1": never before the reload signal
\* and never before the poll has ended.
C10_KickOffOrder ==
    \A t \in Threads :
        /\ Len(thr[t].events) > 0 => thr[t].events[1] = LoadPersistEv
        /\ thr[t].pc = "poll" => Has(thr[t].events, LoadPersistEv)
        /\ thr[t].i > 0 => Has(thr[t].events, LoadPersistEv)
        /\ thr[t].pc = "restart"
           => /\ thr[t].p = "1"
              /\ thr[t].events[Len(thr[t].events)] = "prep_data_fs true"
        /\ Has(thr[t].events, RestartEv)
           => /\ thr[t].p = "1"
              /\ thr[t].events = KickOffEffects
              /\ thr[t].pc = "finished"
        /\ Has(thr[t].events, "prep_data_fs false")
           => ~Has(thr[t].events, RestartEv)

\* a run has restarted the framework after polling more than once
C10_Witness ==
    \E t \in Threads :
        /\ thr[t].events = KickOffEffects
        /\ thr[t].i > 1
        /\ props["vold.decrypt"] = "trigger_restart_framework"

\* the table-load commands c's invocation has issued
Loads(c) == Count(call[c].events, "DM_TABLE_LOAD=0")
            + Count(call[c].events, "DM_TABLE_LOAD=-1")
\* c is past create_crypto_blk_dev, which returned true
PastProvision(c) ==
    call[c].pc \in {"transform", "set_state", "set_type", "mount",
                    "reset_main", "spawn"}

\* C11: when the hex encoding of the key fails while the parameters are
\* built, the entry operation returns false with no DM_TABLE_LOAD issued; the
\* mapping is never loaded or activated with an empty parameter string.
C11_HexFailureAborts ==
    \A c \in Callers :
        call[c].hex_failed
        => /\ Loads(c) = 0
           /\ ~Has(call[c].events, "DM_DEV_SUSPEND=0")
           /\ ~PastProvision(c)

\* the k-th kernel mapping command of c's invocation is a retry of the table
\* load: a DM_TABLE_LOAD that follows a failed DM_TABLE_LOAD
IsLoadRetry(c, k) ==
    /\ k > 1
    /\ DmEvents(c)[k] \in {"DM_TABLE_LOAD=0", "DM_TABLE_LOAD=-1"}
    /\ DmEvents(c)[k - 1] = "DM_TABLE_LOAD=-1"

AlignUp8(v) == ((v + 7) \div 8) * 8
\* c's invocation has laid out the table-load buffer (tgt->next = endix)
TableBuilt(c) == Loads(c) > 0 \/ call[c].pc = "dm_load"

\* C13: once the table-load buffer is laid out for parameters that fit, the
\* next field of the target-spec record is the smallest multiple of 8 that is
\* >= data_start + sizeof(dm_target_spec) + crypt_params.size() + 1, and so
\* lies after the null-terminated parameters.
C13_NextIsAlignedEnd ==
    \A c \in Callers :
        (TableBuilt(c) /\ NullIx(call[c].crypt_params) + 1 <= DM_CRYPT_BUF_SIZE)
        => /\ call[c].endix = AlignUp8(NullIx(call[c].crypt_params) + 1)
           /\ call[c].endix > NullIx(call[c].crypt_params)

\* C14: no record that an invocation of an entry operation writes to the log
\* has the hex-encoded key (alone or within the parameter string) streamed
\* into it, so the log does not depend on the key.
C14_KeyNotLogged ==
    \A c \in Callers :
        \A k \in 1..Len(call[c].log) : "hex_key" \notin call[c].log[k].streamed

LoadPersistSet == "vold.decrypt=trigger_load_persist_props"
DoneCleared == "vold.post_fs_data_done=0"
PostFsDataSet == "vold.decrypt=trigger_post_fs_data"
RestartSet == "vold.decrypt=trigger_restart_framework"
\* the reads of vold.post_fs_data_done thread t has made
FlagReads(t) ==
    thr[t].i + (IF Has(thr[t].events, "prep_data_fs true")
                   \/ Has(thr[t].events, "prep_data_fs false") THEN 1 ELSE 0)

\* a started thread reads vold.post_fs_data_done at most DATA_PREP_TIMEOUT
\* times; when prep_data_fs times out it has made exactly that many reads, and
\* the thread has ended having written nothing but the three properties that
\* precede the poll: no trigger_restart_framework
PollBounded ==
    \A t \in Threads :
        /\ FlagReads(t) <= DATA_PREP_TIMEOUT
        /\ Has(thr[t].events, "prep_data_fs false")
           => /\ thr[t].pc = "finished"
              /\ FlagReads(t) = DATA_PREP_TIMEOUT
              /\ thr[t].events = <<LoadPersistSet, DoneCleared, PostFsDataSet,
                                   "prep_data_fs false">>

\* C15: every started thread ends, whether or not init ever sets
\* vold.post_fs_data_done: it reads the flag at most DATA_PREP_TIMEOUT times,
\* and after a timeout it has ended without writing trigger_restart_framework
\* or any property other than the three that precede the poll.
C15_KickOffTerminates ==
    /\ []PollBounded
    /\ \A t \in Threads : (thr[t].pc # "unborn") ~> (thr[t].pc = "finished")

\* a thread has ended on the timeout while the flag was never "1"
C15_Witness ==
    \E t \in Threads :
        /\ thr[t].pc = "finished"
        /\ Has(thr[t].events, "prep_data_fs false")
        /\ props["vold.post_fs_data_done"] = "0"

\* the N of the /dev/block/dm-N paths the status ioctl can lead to
DmPaths == {DmMinor(dev) : dev \in DmDevs}
\* c's invocation has handed a device path to cryptfs_enable_inplace or to
\* mount_via_fs_mgr
UsesMappedPath(c) == call[c].inplace_arg # -1 \/ call[c].mount_arg # -1

\* C16: cryptfs_enable_inplace and mount_via_fs_mgr are called with the
\* /dev/block/dm-N path only by an invocation whose own DM_DEV_SUSPEND (resume)
\* succeeded before the call; the path they get is the one derived after the
\* status ioctl, which exists from then on whether activation follows or not.
C16_PathUsedOnlyAfterActivation ==
    \A c \in Callers :
        /\ UsesMappedPath(c)
           => /\ call[c].activated
              /\ Count(call[c].events, "DM_DEV_SUSPEND=0") = 1
              /\ AllBefore(call[c].events, "DM_DEV_SUSPEND=0",
                           "cryptfs_enable_inplace")
              /\ AllBefore(call[c].events, "DM_DEV_SUSPEND=0", "mount_via_fs_mgr")
              /\ call[c].crypto_blkdev \in DmPaths
              /\ call[c].inplace_arg \in {-1, call[c].crypto_blkdev}
              /\ call[c].mount_arg \in {-1, call[c].crypto_blkdev}
        /\ (Has(call[c].events, "cryptfs_enable_inplace")
             \/ Has(call[c].events, "mount_via_fs_mgr")) => UsesMappedPath(c)
        /\ Has(call[c].events, "DM_DEV_STATUS=0") <=> call[c].crypto_blkdev # -1

\* an invocation of enable has transformed and mounted /dev/block/dm-259,
\* having activated the mapping
C16_Witness ==
    \E c \in Callers :
        /\ call[c].inplace_arg = 259 /\ call[c].mount_arg = 259
        /\ Has(call[c].events, "DM_DEV_SUSPEND=0")

\* c's invocation has opened the control handle or issued a mapping command
TouchedDm(c) ==
    call[c].dm_fd \/ Has(call[c].events, "open /dev/device-mapper")
                  \/ Len(DmEvents(c)) > 0

\* C17: an invocation whose backing device cannot be opened or measures zero
\* sectors goes to `return false` before the control handle is opened and
\* before any mapping command; whoever opens the handle has measured
\* nr_sec > 0, and every DM_TABLE_LOAD carries sector_start 0 and
\* length = nr_sec > 0.
C17_NoZeroSectorMapping ==
    \A c \in Callers :
        /\ call[c].size_query = "failed"
           => call[c].pc = "ret_false" /\ ~TouchedDm(c) /\ Loads(c) = 0
        /\ TouchedDm(c)
           => /\ call[c].size_query = "ok"
              /\ call[c].nr_sec > 0 /\ call[c].nr_sec = devSectors
        /\ Loads(c) > 0
           => /\ call[c].tgt_sector_start = 0
              /\ call[c].tgt_length = call[c].nr_sec
              /\ call[c].tgt_length > 0

\* an invocation has given up on a backing device of zero sectors
C17_Witness ==
    \E c \in Callers :
        /\ devSectors = 0
        /\ call[c].size_query = "failed"
        /\ call[c].pc = "ret_false"
        /\ Has(call[c].events, "read_key(false)")

OpenDm == "open /dev/device-mapper"
CloseDm == "close /dev/device-mapper"
\* c is inside create_crypto_blk_dev, the control handle opened (an
\* invocation stopped by a fault never leaves it)
InProvision(c) ==
    call[c].pc \in {"dm_create", "dm_status", "build_table", "dm_load",
                    "dm_resume", "crashed"}

\* C18: an invocation opens the control handle at most once, at the start of
\* create_crypto_blk_dev and before any mapping command, and holds it exactly
\* while it is inside create_crypto_blk_dev; on every way out (true, or false
\* after create, status, the size check, the last table load or the resume)
\* the handle has been closed, once.
C18_ControlHandleScoped ==
    \A c \in Callers :
        /\ Count(call[c].events, OpenDm) <= 1
        /\ Count(call[c].events, CloseDm) <= Count(call[c].events, OpenDm)
        /\ call[c].dm_fd <=> InProvision(c)
        /\ call[c].dm_fd
           <=> (Has(call[c].events, OpenDm) /\ ~Has(call[c].events, CloseDm))
        /\ Len(DmEvents(c)) > 0
           => /\ Has(call[c].events, OpenDm)
              /\ First(call[c].events, OpenDm)
                    < First(call[c].events, DmEvents(c)[1])

\* an invocation is about to return false after its last table load failed,
\* the handle closed
C18_Witness ==
    \E c \in Callers :
        /\ call[c].pc = "ret_false"
        /\ Count(call[c].events, "DM_TABLE_LOAD=-1") = TABLE_LOAD_RETRIES
        /\ Has(call[c].events, CloseDm)
        /\ ~call[c].dm_fd

\* what only an invocation that created the mapping may do
BehindCreate == {"DM_DEV_STATUS=0", "DM_DEV_STATUS=-1", "DM_TABLE_LOAD=0",
                 "DM_TABLE_LOAD=-1", "DM_DEV_SUSPEND=0", "DM_DEV_SUSPEND=-1",
                 "cryptfs_enable_inplace", "mount_via_fs_mgr", "fs_mgr_do_mount"}
                \cup PropertyWrites
\* the event c's invocation adds in this step, if it adds one
Adds(c, e) ==
    /\ Len(call'[c].events) > Len(call[c].events)
    /\ \E k \in (Len(call[c].events) + 1)..Len(call'[c].events) :
          call'[c].events[k] = e

\* C19: no step removes the mapping, whatever failed after DM_DEV_CREATE
\* succeeded; an invocation that reaches DM_DEV_CREATE while the mapping is
\* there gets -1 and goes to `return false`; status, table load, resume,
\* transform, mount and property writes are done only by an invocation whose
\* own DM_DEV_CREATE succeeded, when there was no mapping; so
\* cryptfs_enable_inplace is called at most once over all invocations.
C19_MappingStaysTransformOnce ==
    [][ /\ dmPresent => dmPresent'
        /\ \A c \in Callers :
              /\ (Acts(c) /\ call[c].pc = "dm_create" /\ dmPresent)
                 => /\ Adds(c, "DM_DEV_CREATE=-1")
                    /\ call'[c].pc = "ret_false"
              /\ Adds(c, "DM_DEV_CREATE=0") => ~dmPresent /\ dmPresent'
              /\ \A e \in BehindCreate :
                    Adds(c, e) => Has(call[c].events, "DM_DEV_CREATE=0")
              /\ (call'[c].pc = "ret_false" /\ call[c].pc # "ret_false"
                    /\ Has(call[c].events, "DM_DEV_CREATE=0")) => dmPresent'
        /\ transforms' <= 1
      ]_vars

\* an Enable has failed in the transform, and a later invocation has been
\* turned away at DM_DEV_CREATE
C19_Witness ==
    \E c \in Callers :
        /\ transforms = 1
        /\ props["ro.crypto.state"] = ""
        /\ dmPresent
        /\ call[c].pc = "ret_false"
        /\ DmEvents(c) = <<"DM_DEV_CREATE=-1">>

\* c's invocation has created the mapping
Created(c) == Has(call[c].events, "DM_DEV_CREATE=0")
\* c's invocation has been turned away at DM_DEV_CREATE
TurnedAway(c) == Has(call[c].events, "DM_DEV_CREATE=-1")
\* c's invocation has gone beyond DM_DEV_CREATE
WentOn(c) ==
    \/ PastProvision(c)
    \/ \E k \in 1..Len(call[c].events) : call[c].events[k] \in BehindCreate
\* the threads started so far
Started == {t \in Threads : thr[t].pc # "unborn"}

\* C20: however the steps of concurrent invocations interleave, the mapping
\* is created at most once: of two invocations under way at most one has
\* created it, one that finds it there is turned away and goes to
\* `return false`, and only the one that created it issues status, table load
\* and resume, transforms, mounts, writes properties or starts the thread; so
\* at most one transform runs and at most one thread is started.
C20_OneInvocationWins ==
    [][ /\ \A c, d \in Callers :
              c # d => ~(Created(c)' /\ Created(d)')
        /\ \A c \in Callers :
              /\ Adds(c, "DM_DEV_CREATE=0")
                 => /\ ~dmPresent
                    /\ \A d \in Callers \ {c} : ~Created(d) /\ ~WentOn(d)
              /\ TurnedAway(c)'
                 => call'[c].pc = "ret_false" /\ ~Created(c)' /\ ~WentOn(c)'
              /\ WentOn(c)' => Created(c)'
              /\ (Acts(c) /\ Born # {}) => Created(c)
        /\ dmPresent => dmPresent'
        /\ transforms' <= 1
        /\ Cardinality(Started') <= 1
      ]_vars

\* two invocations of Enable have both found ro.crypto.state unset and got
\* the key; one has created the mapping, the other has been turned away
C20_Witness ==
    \E c, d \in Callers :
        /\ c # d
        /\ call[c].op = "enable" /\ call[d].op = "enable"
        /\ Has(call[c].events, "get ro.crypto.state") /\ call[c].seen_state = ""
        /\ Has(call[d].events, "get ro.crypto.state") /\ call[d].seen_state = ""
        /\ Has(call[c].events, "read_key(true)")
        /\ Has(call[d].events, "read_key(true)")
        /\ Created(c) /\ Has(call[c].events, "cryptfs_enable_inplace")
        /\ TurnedAway(d) /\ call[d].pc = "ret_false"
====
